---- MODULE Spec2Model ----
(***************************************************************************)
(* Model of server/models.py: the attribute validators of the Author and   *)
(* Post entities, the construction / assignment interception that fires    *)
(* them, and the column constraints of the two tables.                     *)
(*                                                                         *)
(* Strings are sequences of characters (one-character strings; a character *)
(* outside ASCII is written by its code point, "U+00B2").  A Python value  *)
(* is a record [t, s, n]: None, a str (s) or an int (n).                   *)
(***************************************************************************)
EXTENDS Integers, Sequences, FiniteSets

VARIABLES tableExists, authors, posts, obj, last

vars == <<tableExists, authors, posts, obj, last>>

-----------------------------------------------------------------------------
(* Python values *)

None == [t |-> "none", s |-> <<>>, n |-> 0]

StrVal(s) == [t |-> "str", s |-> s, n |-> 0]

IntVal(n) == [t |-> "int", s |-> <<>>, n |-> n]

Rep(c, n) == [i \in 1..n |-> c]

\* characters str.strip() removes from both ends
Whitespace == {" ", "\t", "\n"}

AsciiDigits == {"0", "1", "2", "3", "4", "5", "6", "7", "8", "9"}

\* characters of Unicode category Nd / No with the Digit property, besides 0-9:
\* ARABIC-INDIC DIGIT THREE and SUPERSCRIPT TWO
UnicodeDigits == AsciiDigits \cup {"U+0663", "U+00B2"}

DigitChar(d) == <<"0", "1", "2", "3", "4", "5", "6", "7", "8", "9">>[d + 1]

RECURSIVE NatToStr(_)
NatToStr(n) == IF n < 10 THEN <<DigitChar(n)>>
               ELSE Append(NatToStr(n \div 10), DigitChar(n % 10))

\* str(value)
str(v) == CASE v.t = "str" -> v.s
              [] v.t = "int" -> IF v.n < 0 THEN <<"-">> \o NatToStr(0 - v.n)
                                ELSE NatToStr(v.n)
              [] OTHER -> <<"N", "o", "n", "e">>

\* str.strip()
Strip(s) ==
    LET keep == {i \in 1..Len(s) : s[i] \notin Whitespace}
    IN  IF keep = {} THEN <<>>
        ELSE LET lo == CHOOSE i \in keep : \A j \in keep : i <= j
                 hi == CHOOSE i \in keep : \A j \in keep : j <= i
             IN  SubSeq(s, lo, hi)

\* str.isdigit(): at least one character, and every character a Unicode digit
IsDigit(s) == Len(s) > 0 /\ \A i \in 1..Len(s) : s[i] \in UnicodeDigits

\* `p in s` for two strings
Contains(s, p) == \E i \in 0..(Len(s) - Len(p)) : SubSeq(s, i + 1, i + Len(p)) = p

\* str.lower(), on the letters the values here are made of
Lower(c) == CASE c = "W" -> "w" [] c = "B" -> "b" [] c = "S" -> "s"
              [] c = "T" -> "t" [] c = "G" -> "g" [] c = "F" -> "f" [] c = "N" -> "n"
              [] c = "A" -> "a" [] OTHER -> c

LowerCase(s) == [i \in 1..Len(s) |-> Lower(s[i])]

-----------------------------------------------------------------------------
(* Outcome of a call: a returned value or a raised exception *)

Returned(v) == [ok |-> TRUE, val |-> v, err |-> ""]

Raise(msg) == [ok |-> FALSE, val |-> None, err |-> msg]

\* self is the id of the entity the call is made on (0: not stored yet)
Call(fn, self, arg, res) == [fn |-> fn, self |-> self, arg |-> arg, res |-> res]

NoCall == Call("none", 0, None, Returned(None))

-----------------------------------------------------------------------------
(* Module constants *)

WontBelieve == <<"W", "o", "n", "'", "t", " ", "B", "e", "l", "i", "e", "v", "e">>
Secret == <<"S", "e", "c", "r", "e", "t">>
Top == <<"T", "o", "p">>
Guess == <<"G", "u", "e", "s", "s">>

CLICKBAIT_PHRASES == {WontBelieve, Secret, Top, Guess}

Fiction == <<"F", "i", "c", "t", "i", "o", "n">>
NonFiction == <<"N", "o", "n", "-">> \o Fiction

ALLOWED_CATEGORIES == {StrVal(Fiction), StrVal(NonFiction)}

PhoneLen == 10

MinContentLen == 250

MaxSummaryLen == 250

-----------------------------------------------------------------------------
(* Validators *)

\* inspector.get_table_names()
TableNames == IF tableExists THEN {"authors", "posts"} ELSE {}

\* Author.query.filter(Author.name == value): the rows whose name is value; a
\* query against a table that was never created raises
AuthorQuery(value) ==
    IF tableExists
    THEN [ok |-> TRUE, rows |-> {a \in authors : a.name = value}, err |-> ""]
    ELSE [ok |-> FALSE, rows |-> {}, err |-> "OperationalError: no such table: authors"]

\* validate_name without the probe for the authors table
validate_name_unguarded(value) ==
    IF value = None \/ Strip(str(value)) = <<>>
    THEN Raise("Author must have a name.")
    ELSE LET existing == AuthorQuery(value)
         IN  IF ~existing.ok THEN Raise(existing.err)
             ELSE IF existing.rows # {} THEN Raise("Author name must be unique.")
             ELSE Returned(value)

validate_name(value) ==
    IF value = None \/ Strip(str(value)) = <<>>
    THEN Raise("Author must have a name.")
    ELSE IF "authors" \in TableNames
    THEN LET existing == AuthorQuery(value)
         IN  IF ~existing.ok THEN Raise(existing.err)
             ELSE IF existing.rows # {} THEN Raise("Author name must be unique.")
             ELSE Returned(value)
    ELSE Returned(value)

validate_phone_number(value) ==
    IF value = None THEN Returned(value)
    ELSE IF Len(str(value)) # PhoneLen
    THEN Raise("Phone number must be exactly 10 digits.")
    ELSE IF ~IsDigit(str(value))
    THEN Raise("Phone number must contain digits only.")
    ELSE Returned(StrVal(str(value)))

\* validate_title matching the phrases whatever their letter case
validate_title_anycase(value) ==
    IF value = None \/ Strip(str(value)) = <<>>
    THEN Raise("Post must have a title.")
    ELSE IF ~(\E phrase \in CLICKBAIT_PHRASES : Contains(LowerCase(value.s), LowerCase(phrase)))
    THEN Raise("Title must contain clickbait keywords.")
    ELSE Returned(value)

validate_title(value) ==
    IF value = None \/ Strip(str(value)) = <<>>
    THEN Raise("Post must have a title.")
    ELSE IF ~(\E phrase \in CLICKBAIT_PHRASES : Contains(value.s, phrase))
    THEN Raise("Title must contain clickbait keywords.")
    ELSE Returned(value)

\* validate_content refusing length 250 too
validate_content_off_by_one(value) ==
    IF value = None THEN Raise("Post must have content.")
    ELSE IF Len(value.s) <= MinContentLen
    THEN Raise("Content must be at least 250 characters.")
    ELSE Returned(value)

validate_content(value) ==
    IF value = None THEN Raise("Post must have content.")
    ELSE IF Len(value.s) < MinContentLen
    THEN Raise("Content must be at least 250 characters.")
    ELSE Returned(value)

\* validate_summary refusing length 250 too
validate_summary_off_by_one(value) ==
    IF value = None THEN Returned(value)
    ELSE IF Len(value.s) >= MaxSummaryLen
    THEN Raise("Summary must be 250 characters or fewer.")
    ELSE Returned(value)

validate_summary(value) ==
    IF value = None THEN Returned(value)
    ELSE IF Len(value.s) > MaxSummaryLen
    THEN Raise("Summary must be 250 characters or fewer.")
    ELSE Returned(value)

\* validate_category matching the allow-list whatever the letter case
validate_category_anycase(value) ==
    IF value = None \/ StrVal(LowerCase(value.s)) \notin {StrVal(LowerCase(x.s)) : x \in ALLOWED_CATEGORIES}
    THEN Raise("Category must be Fiction or Non-Fiction.")
    ELSE Returned(value)

validate_category(value) ==
    IF value \notin ALLOWED_CATEGORIES
    THEN Raise("Category must be Fiction or Non-Fiction.")
    ELSE Returned(value)

-----------------------------------------------------------------------------
(* Bounds and the values the callers supply *)

\* longest content / summary string a direct validator call is given
MaxLen == 252

\* longest tail appended to a phone-number stem
MaxTail == 2

\* stored rows per table
MaxAuthors == 2
MaxPosts == 1

Digits8 == <<"5", "5", "5", "1", "2", "3", "4", "5">>

TailChars == {"6", "a", " ", "U+0663", "U+00B2"}

Tails == UNION {[1..n -> TailChars] : n \in 0..MaxTail}

PhoneInputs ==
    {None, IntVal(1234567890), IntVal(123456789), IntVal(0 - 123456789), IntVal(0)}
    \cup {StrVal(Digits8 \o tl) : tl \in Tails}
    \cup {StrVal(Digits8 \o <<"6">> \o tl) : tl \in Tails}

TitleCores ==
    CLICKBAIT_PHRASES
    \cup {LowerCase(p) : p \in CLICKBAIT_PHRASES}
    \cup {SubSeq(p, 1, Len(p) - 1) : p \in CLICKBAIT_PHRASES}
    \cup {Tail(p) : p \in CLICKBAIT_PHRASES}
    \cup {SubSeq(p, 1, 2) \o <<" ">> \o SubSeq(p, 3, Len(p)) : p \in CLICKBAIT_PHRASES}
    \cup {<<>>, <<" ">>, <<"H", "e", "l", "l", "o", " ", "W", "o", "r", "l", "d">>}

TitlePrefixes == {<<>>, <<" ">>, <<"1", "0", " ">>, <<"S">>}

TitleSuffixes == {<<>>, <<"\t">>, <<" ", "T", "i", "p", "s">>, <<" ", "t", "i", "p", "s">>}

TitleInputs ==
    {None} \cup {StrVal(a \o b \o c) : a \in TitlePrefixes, b \in TitleCores, c \in TitleSuffixes}

LengthInputs == {None} \cup {StrVal(Rep("x", n)) : n \in 0..MaxLen}

CategoryInputs ==
    {None, StrVal(<<>>), StrVal(Fiction), StrVal(NonFiction), StrVal(LowerCase(Fiction)),
     StrVal(LowerCase(NonFiction)), StrVal(Fiction \o <<" ">>),
     StrVal(<<"N", "o", "n">> \o Fiction), StrVal(SubSeq(NonFiction, 1, 3))}

-----------------------------------------------------------------------------
(* Direct calls of the field validators *)

NameCallInputs ==
    {StrVal(<<>>), StrVal(<<"\n", " ", "\t">>), StrVal(<<"A", "n", "n", " ">>),
     StrVal(<<" ", "A", "n", "n">>), StrVal(<<"a", "n", "n">>), StrVal(<<"A", "n">>)}

CallValidateName(value) ==
    /\ last' = Call("validate_name", 0, value, validate_name(value))
    /\ UNCHANGED <<tableExists, authors, posts, obj>>

CallValidatePhoneNumber(value) ==
    /\ last' = Call("validate_phone_number", 0, value, validate_phone_number(value))
    /\ UNCHANGED <<tableExists, authors, posts, obj>>

CallValidateTitle(value) ==
    /\ last' = Call("validate_title", 0, value, validate_title(value))
    /\ UNCHANGED <<tableExists, authors, posts, obj>>

CallValidateContent(value) ==
    /\ last' = Call("validate_content", 0, value, validate_content(value))
    /\ UNCHANGED <<tableExists, authors, posts, obj>>

CallValidateSummary(value) ==
    /\ last' = Call("validate_summary", 0, value, validate_summary(value))
    /\ UNCHANGED <<tableExists, authors, posts, obj>>

CallValidateCategory(value) ==
    /\ last' = Call("validate_category", 0, value, validate_category(value))
    /\ UNCHANGED <<tableExists, authors, posts, obj>>

-----------------------------------------------------------------------------
(* Entities: the mapped columns, construction and attribute assignment *)

AuthorFields == {"name", "phone_number"}

PostFields == {"title", "content", "category", "summary"}

Fields(kind) == IF kind = "Author" THEN AuthorFields ELSE PostFields

NoObj == [kind |-> "none", id |-> 0, f |-> [x \in {} |-> None], dirty |-> {}]

\* a new instance: no primary key, every column attribute unset
NewObj(kind) == [kind |-> kind, id |-> 0, f |-> [x \in Fields(kind) |-> None], dirty |-> {}]

\* the validator @validates registers for a column
Validate(field, value) ==
    CASE field = "name" -> validate_name(value)
      [] field = "phone_number" -> validate_phone_number(value)
      [] field = "title" -> validate_title(value)
      [] field = "content" -> validate_content(value)
      [] field = "summary" -> validate_summary(value)
      [] field = "category" -> validate_category(value)

\* an interception that stores whatever the call left behind
SetAttrUnchecked(o, field, res) ==
    [o EXCEPT !.f[field] = res.val, !.dirty = IF o.id = 0 THEN {} ELSE @ \cup {field}]

\* the attribute-set interception: the validator's return value is what is
\* stored; when it raises the attribute keeps its value
SetAttr(o, field, res) ==
    IF res.ok
    THEN [o EXCEPT !.f[field] = res.val,
                   !.dirty = IF o.id = 0 THEN {} ELSE @ \cup {field}]
    ELSE o

\* the constructor: setattr for each keyword in the order given; the first
\* exception leaves the caller without an instance
RECURSIVE ApplyKwargs(_, _, _)
ApplyKwargs(o, kwargs, call) ==
    IF kwargs = <<>> THEN [obj |-> o, call |-> call]
    ELSE LET field == kwargs[1][1]
             value == kwargs[1][2]
             res == Validate(field, value)
             made == Call("validate_" \o field, 0, value, res)
         IN  IF res.ok THEN ApplyKwargs(SetAttr(o, field, res), Tail(kwargs), made)
             ELSE [obj |-> NoObj, call |-> made]


Callers == {1, 2}

\* values the callers give to the entities' attributes
Ann == <<"A", "n", "n">>
Bob == <<"B", "o", "b">>

NameInputs == {None, StrVal(<<" ", "\t">>), StrVal(Ann), StrVal(Bob)}

EntityPhoneInputs ==
    {None, StrVal(Digits8 \o <<"6", "7">>), StrVal(Digits8 \o <<"6", "a">>)}

EntityTitleInputs ==
    {None, StrVal(<<>>), StrVal(<<"1", "0", " ">> \o Secret \o <<" ", "T", "i", "p", "s">>),
     StrVal(<<"H", "e", "l", "l", "o", " ", "W", "o", "r", "l", "d">>)}

EntityContentInputs ==
    {None, StrVal(Rep("x", MinContentLen - 1)), StrVal(Rep("x", MinContentLen))}

EntitySummaryInputs ==
    {None, StrVal(Rep("x", MaxSummaryLen)), StrVal(Rep("x", MaxSummaryLen + 1))}

EntityCategoryInputs == {None, StrVal(Fiction), StrVal(NonFiction), StrVal(LowerCase(Fiction))}

FieldInputs(field) ==
    CASE field = "name" -> NameInputs
      [] field = "phone_number" -> EntityPhoneInputs
      [] field = "title" -> EntityTitleInputs
      [] field = "content" -> EntityContentInputs
      [] field = "summary" -> EntitySummaryInputs
      [] field = "category" -> EntityCategoryInputs

\* keyword arguments: every subset of the fields, in every order, each with
\* one of its values
RECURSIVE Kwargs(_)
Kwargs(F) ==
    {<<>>} \cup UNION {{<<<<x, v>>>> \o rest : v \in FieldInputs(x), rest \in Kwargs(F \ {x})} :
                       x \in F}

AuthorKwargs == Kwargs(AuthorFields)

PostKwargs == Kwargs(PostFields)

\* Author(**kwargs) / Post(**kwargs)
New(c, kind) ==
    /\ obj[c] = NoObj
    /\ \E kwargs \in (IF kind = "Author" THEN AuthorKwargs ELSE PostKwargs) :
          LET made == ApplyKwargs(NewObj(kind), kwargs,
                                  Call("__init__", 0, None, Returned(None)))
          IN  /\ obj' = [obj EXCEPT ![c] = made.obj]
              /\ last' = made.call
    /\ UNCHANGED <<tableExists, authors, posts>>

\* entity.field = value
Assign(c, field, value) ==
    /\ obj[c] # NoObj
    /\ field \in Fields(obj[c].kind)
    /\ LET res == Validate(field, value)
       IN  /\ obj' = [obj EXCEPT ![c] = SetAttr(obj[c], field, res)]
           /\ last' = Call("validate_" \o field, obj[c].id, value, res)
    /\ UNCHANGED <<tableExists, authors, posts>>

-----------------------------------------------------------------------------
(* Storage: the two tables and their column constraints *)

AuthorRow(id, f) == [id |-> id, name |-> f["name"], phone_number |-> f["phone_number"]]

PostRow(id, f) ==
    [id |-> id, title |-> f["title"], content |-> f["content"],
     category |-> f["category"], summary |-> f["summary"]]

\* authors.name without unique=True
AuthorsAcceptDuplicates(row, others) == row.name # None

\* authors.name: nullable=False, unique=True
AuthorsAccept(row, others) ==
    /\ row.name # None
    /\ \A a \in others : a.name # row.name

\* posts.title: nullable=False
PostsAccept(row) == row.title # None

\* an integer primary key: one more than the largest in the table
NextId(table) == Cardinality(table) + 1

\* the stored row of a loaded instance, overwritten in the columns assigned since
Merged(o, row) == [x \in Fields(o.kind) |-> IF x \in o.dirty THEN o.f[x] ELSE row[x]]

FromRow(kind, row) ==
    [kind |-> kind, id |-> row.id, f |-> [x \in Fields(kind) |-> row[x]], dirty |-> {}]

\* creation of the schema
CreateAll ==
    /\ ~tableExists
    /\ tableExists' = TRUE
    /\ last' = NoCall
    /\ UNCHANGED <<authors, posts, obj>>

\* session add + commit of an Author: INSERT of a new instance, UPDATE of a
\* loaded one; a constraint violation raises, rolls back and leaves the table
\* as it was
FlushAuthor(c) ==
    /\ tableExists
    /\ obj[c].kind = "Author"
    /\ IF obj[c].id = 0
       THEN /\ Cardinality(authors) < MaxAuthors
            /\ LET row == AuthorRow(NextId(authors), obj[c].f)
               IN  IF AuthorsAccept(row, authors)
                   THEN /\ authors' = authors \cup {row}
                        /\ obj' = [obj EXCEPT ![c].id = row.id]
                        /\ last' = Call("commit", row.id, None, Returned(None))
                   ELSE /\ last' = Call("commit", 0, None, Raise("IntegrityError"))
                        /\ UNCHANGED <<authors, obj>>
       ELSE /\ obj[c].dirty # {}
            /\ LET old == CHOOSE a \in authors : a.id = obj[c].id
                   row == AuthorRow(old.id, Merged(obj[c], old))
               IN  IF AuthorsAccept(row, authors \ {old})
                   THEN /\ authors' = (authors \ {old}) \cup {row}
                        /\ obj' = [obj EXCEPT ![c] = FromRow("Author", row)]
                        /\ last' = Call("commit", row.id, None, Returned(None))
                   ELSE /\ obj' = [obj EXCEPT ![c] = FromRow("Author", old)]
                        /\ last' = Call("commit", old.id, None, Raise("IntegrityError"))
                        /\ UNCHANGED authors
    /\ UNCHANGED <<tableExists, posts>>

FlushPost(c) ==
    /\ tableExists
    /\ obj[c].kind = "Post"
    /\ IF obj[c].id = 0
       THEN /\ Cardinality(posts) < MaxPosts
            /\ LET row == PostRow(NextId(posts), obj[c].f)
               IN  IF PostsAccept(row)
                   THEN /\ posts' = posts \cup {row}
                        /\ obj' = [obj EXCEPT ![c].id = row.id]
                        /\ last' = Call("commit", row.id, None, Returned(None))
                   ELSE /\ last' = Call("commit", 0, None, Raise("IntegrityError"))
                        /\ UNCHANGED <<posts, obj>>
       ELSE /\ obj[c].dirty # {}
            /\ LET old == CHOOSE p \in posts : p.id = obj[c].id
                   row == PostRow(old.id, Merged(obj[c], old))
               IN  IF PostsAccept(row)
                   THEN /\ posts' = (posts \ {old}) \cup {row}
                        /\ obj' = [obj EXCEPT ![c] = FromRow("Post", row)]
                        /\ last' = Call("commit", row.id, None, Returned(None))
                   ELSE /\ obj' = [obj EXCEPT ![c] = FromRow("Post", old)]
                        /\ last' = Call("commit", old.id, None, Raise("IntegrityError"))
                        /\ UNCHANGED posts
    /\ UNCHANGED <<tableExists, authors>>

\* a query that loads a stored row; loading fires no validator
LoadAuthor(c) ==
    /\ obj[c] = NoObj
    /\ \E a \in authors : obj' = [obj EXCEPT ![c] = FromRow("Author", a)]
    /\ last' = NoCall
    /\ UNCHANGED <<tableExists, authors, posts>>

LoadPost(c) ==
    /\ obj[c] = NoObj
    /\ \E p \in posts : obj' = [obj EXCEPT ![c] = FromRow("Post", p)]
    /\ last' = NoCall
    /\ UNCHANGED <<tableExists, authors, posts>>

\* the caller drops its reference
Discard(c) ==
    /\ obj[c] # NoObj
    /\ obj' = [obj EXCEPT ![c] = NoObj]
    /\ last' = NoCall
    /\ UNCHANGED <<tableExists, authors, posts>>

-----------------------------------------------------------------------------
(* Specifications *)

Init ==
    /\ tableExists = FALSE
    /\ authors = {}
    /\ posts = {}
    /\ obj = [c \in Callers |-> NoObj]
    /\ last = NoCall

\* the field validators called directly, on any value
NextValidators ==
    \/ \E value \in PhoneInputs : CallValidatePhoneNumber(value)
    \/ \E value \in TitleInputs : CallValidateTitle(value)
    \/ \E value \in LengthInputs : CallValidateContent(value)
    \/ \E value \in LengthInputs : CallValidateSummary(value)
    \/ \E value \in CategoryInputs : CallValidateCategory(value)

SpecValidators == Init /\ [][NextValidators]_vars

\* two independent callers creating, changing and storing Authors
NextAuthor ==
    \/ CreateAll
    \/ \E value \in NameCallInputs : CallValidateName(value)
    \/ \E c \in Callers :
        \/ New(c, "Author")
        \/ \E field \in AuthorFields : \E value \in FieldInputs(field) : Assign(c, field, value)
        \/ FlushAuthor(c)
        \/ LoadAuthor(c)
        \/ Discard(c)

SpecAuthor == Init /\ [][NextAuthor]_vars

\* one caller creating, changing and storing Posts
NextPost ==
    \/ CreateAll
    \/ New(1, "Post")
    \/ \E field \in PostFields : \E value \in FieldInputs(field) : Assign(1, field, value)
    \/ FlushPost(1)
    \/ LoadPost(1)
    \/ Discard(1)

SpecPost == Init /\ [][NextPost]_vars

-----------------------------------------------------------------------------
(* The contract, stated apart from the validators' code *)

RequiredFieldError ==
    {"Author must have a name.", "Post must have a title.", "Post must have content."}

UniquenessError == {"Author name must be unique."}

FormatError ==
    {"Phone number must be exactly 10 digits.", "Phone number must contain digits only."}

LengthError ==
    {"Content must be at least 250 characters.", "Summary must be 250 characters or fewer."}

ContentPolicyError ==
    {"Title must contain clickbait keywords.", "Category must be Fiction or Non-Fiction."}

Raised(call, errors) == ~call.res.ok /\ call.res.err \in errors

Accepted(call) == call.res = Returned(call.arg)

IsBlank(v) == v = None \/ \A i \in 1..Len(v.s) : v.s[i] \in {" ", "\t", "\n"}

TenDecimalDigits(s) ==
    /\ Len(s) = 10
    /\ \A i \in 1..Len(s) : s[i] \in {"0", "1", "2", "3", "4", "5", "6", "7", "8", "9"}

HasPhraseAt(s, p, i) == i + Len(p) - 1 <= Len(s) /\ \A k \in 1..Len(p) : s[i + k - 1] = p[k]

HasClickbait(s) ==
    \E p \in {WontBelieve, Secret, Top, Guess} : \E i \in 1..Len(s) : HasPhraseAt(s, p, i)

Validators ==
    {"validate_name", "validate_phone_number", "validate_title", "validate_content",
     "validate_summary", "validate_category"}

TenSecretTips == StrVal(<<"1", "0", " ">> \o Secret \o <<" ", "T", "i", "p", "s">>)

C2_UniqueNames == \A a, b \in authors : a.name = b.name => a = b

\* both callers got the same name through validate_name before either was
\* stored; the second insert was refused
C2_Witness ==
    /\ last = Call("commit", 0, None, Raise("IntegrityError"))
    /\ \E c, d \in Callers :
        /\ c # d
        /\ obj[c].kind = "Author" /\ obj[c].id = 0
        /\ obj[d].kind = "Author" /\ obj[d].id # 0
        /\ obj[c].f["name"] = obj[d].f["name"]
        /\ \E a \in authors : a.id = obj[d].id /\ a.name = obj[c].f["name"]

\* C3: validate_phone_number passes null through; any other value is returned
\* in its string form when that form is exactly 10 characters, each one of
\* 0-9, and raises the format error otherwise.
C3_PhoneContract ==
    last.fn = "validate_phone_number" =>
        IF last.arg = None THEN Accepted(last)
        ELSE IF TenDecimalDigits(str(last.arg))
             THEN last.res = Returned(StrVal(str(last.arg)))
             ELSE Raised(last, FormatError)

\* C4: validate_title raises the required-field error for a null or blank
\* value, the content-policy error for a value holding none of the four
\* phrases as a case-sensitive substring, and returns any other value unchanged.
C4_TitleContract ==
    last.fn = "validate_title" =>
        /\ IsBlank(last.arg) => Raised(last, RequiredFieldError)
        /\ ~IsBlank(last.arg) /\ ~HasClickbait(last.arg.s) => Raised(last, ContentPolicyError)
        /\ ~IsBlank(last.arg) /\ HasClickbait(last.arg.s) => Accepted(last)

C4_Witness == last.fn = "validate_title" /\ last.arg = TenSecretTips /\ Accepted(last)

\* C5: validate_content raises the required-field error for null, the length
\* error for every length below 250, and returns every longer value unchanged.
C5_ContentContract ==
    last.fn = "validate_content" =>
        IF last.arg = None THEN Raised(last, RequiredFieldError)
        ELSE IF Len(last.arg.s) < 250 THEN Raised(last, LengthError)
        ELSE Accepted(last)

C5_Witness == last.fn = "validate_content" /\ Len(last.arg.s) = 250 /\ Accepted(last)

\* C6: validate_summary passes null through, returns every string of length 0
\* to 250 unchanged and raises the length error for every longer one.
C6_SummaryContract ==
    last.fn = "validate_summary" =>
        IF last.arg = None THEN Accepted(last)
        ELSE IF Len(last.arg.s) <= 250 THEN Accepted(last)
        ELSE Raised(last, LengthError)

C6_Witness ==
    last.fn = "validate_summary" /\ last.arg # None /\ Len(last.arg.s) = 250 /\ Accepted(last)

\* C7: validate_category returns the value unchanged exactly when it is
\* "Fiction" or "Non-Fiction"; anything else, null included, raises the
\* content-policy error.
C7_CategoryContract ==
    last.fn = "validate_category" =>
        IF last.arg \in {StrVal(<<"F", "i", "c", "t", "i", "o", "n">>),
                         StrVal(<<"N", "o", "n", "-", "F", "i", "c", "t", "i", "o", "n">>)}
        THEN Accepted(last)
        ELSE Raised(last, ContentPolicyError)

C7_Witness ==
    /\ last.fn = "validate_category"
    /\ last.arg = StrVal(<<"N", "o", "n", "-", "F", "i", "c", "t", "i", "o", "n">>)
    /\ Accepted(last)

PostDataModel(f) ==
    /\ f["title"] # None /\ f["title"].s # <<>> /\ HasClickbait(f["title"].s)
    /\ f["content"] # None /\ Len(f["content"].s) >= 250
    /\ f["summary"] = None \/ Len(f["summary"].s) <= 250
    /\ f["category"] \in {StrVal(Fiction), StrVal(NonFiction)}

\* C8: every Post that exists, in a caller's hands or stored, satisfies the
\* Post data model: a clickbait title, content of at least 250 characters, a
\* summary that is null or at most 250 characters, an allowed category.
C8_PostDataModel ==
    /\ \A c \in Callers : obj[c].kind = "Post" => PostDataModel(obj[c].f)
    /\ \A p \in posts : PostDataModel(p)

FieldOf(fn) ==
    CASE fn = "validate_name" -> "name"
      [] fn = "validate_phone_number" -> "phone_number"
      [] fn = "validate_title" -> "title"
      [] fn = "validate_content" -> "content"
      [] fn = "validate_summary" -> "summary"
      [] fn = "validate_category" -> "category"

\* C10: a value a validator has accepted is accepted again, and returned as
\* it is, when validated again; so is the name of an Author that has been
\* stored.
C10_Idempotent ==
    /\ (last.fn \in Validators /\ last.res.ok)
          => Validate(FieldOf(last.fn), last.res.val) = Returned(last.res.val)
    /\ \A c \in Callers : \A a \in authors :
          (obj[c].kind = "Author" /\ obj[c].id = a.id /\ obj[c].f["name"] = a.name)
             => validate_name(a.name) = Returned(a.name)

====
